---- MODULE Spec2Model ----
(***************************************************************************)
(* Model of src/server.py: one WebSocket connection of the Nova Sonic      *)
(* voice bridge.  Two asyncio coroutines share one NovaSession:            *)
(*   - ws_handler (the gateway): start(), the client receive loop and the  *)
(*     teardown in its finally block;                                      *)
(*   - forward_bedrock_events (the translator task).                       *)
(* A third coroutine, update_system_prompt (POST /api/system-prompt),      *)
(* broadcasts to the connection while it is in active_connections.         *)
(* asyncio is cooperative: a coroutine runs atomically from one await to   *)
(* the next.  Every action below is one such run.  A call of               *)
(* stream.input_stream.send / ws.send_json is logged when it is made; the  *)
(* coroutine then waits, and when it resumes the call has either returned  *)
(* or raised (the transport is external, both outcomes are possible).      *)
(***************************************************************************)
EXTENDS Naturals, Sequences, FiniteSets

VARIABLES
    is_active,           \* NovaSession.is_active
    audio_content_name,  \* NovaSession.audio_content_name; 0 is None
    uuids,               \* number of audio names drawn from uuid4 so far
    stream,              \* "none" | "open" | "closed": the adapter's input stream
    sent,                \* calls of stream.input_stream.send, in call order
    clientOut,           \* calls of ws.send_json, in call order
    received,            \* upstream events the translator has read, in order
    frames,              \* client frames the gateway loop has read, in order
    gpc,                 \* where ws_handler is
    tpc,                 \* where forward_bedrock_events is ("none": no task)
    ev,                  \* translator local: the event being handled
    current_role,        \* translator local
    current_stage,       \* translator local
    emitted_assistant_lines,  \* translator local
    frameNo,             \* client frames the gateway loop has read
    frameBudget,         \* client frames this connection will deliver
    eventBudget,         \* upstream events this connection will deliver
    CURRENT_SYSTEM_PROMPT,  \* module global, a sequence of characters
    active_connections,  \* module global: {"ws"} while the connection is listed
    hpc,                 \* update_system_prompt calls waiting in ws.send_json
    promptBudget         \* POST /api/system-prompt requests still to come

vars == <<is_active, audio_content_name, uuids, stream, sent, clientOut,
          received, frames, gpc, tpc, ev, current_role, current_stage,
          emitted_assistant_lines, frameNo, frameBudget, eventBudget,
          CURRENT_SYSTEM_PROMPT, active_connections, hpc, promptBudget>>

session == <<is_active, audio_content_name, uuids, stream>>
trLocals == <<ev, current_role, current_stage, emitted_assistant_lines>>
http == <<CURRENT_SYSTEM_PROMPT, active_connections, hpc, promptBudget>>

\* ---------------------------------------------------------------- bounds
MaxFrames == 2      \* client frames per connection (Spec)
MaxEvents == 1      \* upstream events per connection (Spec)
GwFrames == 4       \* client frames per connection (SpecGw)
TrEvents == 3       \* upstream events per connection (SpecTr)
LongEvents == 4     \* upstream events per connection (SpecTrLong)
MaxPrompts == 1     \* POST /api/system-prompt requests (Spec)
HttpPrompts == 2    \* POST /api/system-prompt requests (SpecHttp)

\* ------------------------------------------------------------ vocabulary
None == "None"

Texts == {"", "a", "b"}

\* Upstream frames read by the translator.  k is the key found in the
\* event envelope; "empty" is a frame without bytes, "malformed" one whose
\* bytes are not the JSON the handler expects.
\* contentStart: a = role, b = additionalModelFields
\*   ("absent", a JSON text carrying SPECULATIVE or FINAL, or "bad" JSON).
UpEvent(k, a, b) == [k |-> k, a |-> a, b |-> b]

UpEvents ==
    {UpEvent("contentStart", "USER", "absent")}
    \cup {UpEvent("contentStart", "ASSISTANT", f) :
             f \in {"absent", "SPECULATIVE", "FINAL", "bad"}}
    \cup {UpEvent("textOutput", t, "") : t \in Texts}
    \cup {UpEvent("audioOutput", "", ""), UpEvent("contentEnd", "", ""),
          UpEvent("empty", "", ""), UpEvent("malformed", "", "")}
    \cup {UpEvent("toolUse", n, "") :
             n \in {"transfer_call", "end_call", "kb_lookup"}}

NoEvent == UpEvent("none", "", "")

\* Bodies of POST /api/system-prompt, as sequences of characters.
Prompts == {<< >>, <<" ">>, <<"p">>, <<" ", "p", " ">>}

DefaultPrompt == <<"d">>

\* str.strip() on a sequence of characters.
RECURSIVE LStrip(_)
LStrip(q) == IF q # << >> /\ q[1] = " " THEN LStrip(Tail(q)) ELSE q

RECURSIVE RStrip(_)
RStrip(q) ==
    IF q # << >> /\ q[Len(q)] = " "
    THEN RStrip(SubSeq(q, 1, Len(q) - 1)) ELSE q

Strip(q) == RStrip(LStrip(q))

\* Client frames read by the gateway loop.
Frames == {"beginAudio", "endAudio", "binary", "binaryEmpty",
           "badJson", "otherType", "nonObject"}

\* One call of stream.input_stream.send: the event, its contentName (0 when
\* it has none), its role (contentStart only), the Session method and the
\* coroutine that made it, the client frame number the gateway was handling
\* (0 outside the loop), and the value of is_active when the call was made.
Sent(kind, name, role, op, by) ==
    [kind |-> kind, name |-> name, role |-> role, op |-> op, by |-> by,
     n |-> IF by = "gw" /\ op \notin {"start", "close"} THEN frameNo ELSE 0,
     active |-> is_active]

\* One call of ws.send_json; src is the number of upstream events read when
\* it was made (0 for the gateway's own notifications).
Note(type, role, content, by) ==
    [type |-> type, role |-> role, content |-> content,
     src |-> IF by = "tr" THEN Len(received) ELSE 0]

InSeq(x, s) == \E i \in 1..Len(s) : s[i] = x

\* --------------------------------------------------------------- Session
\* Content names: text_content_name is drawn once, every audio turn draws a
\* fresh uuid4.
TextName == 1
FreshAudioName == uuids + 2

\* start() with promptStart sent after the SYSTEM block was opened.
StartEvents_PromptLate ==
    << [kind |-> "sessionStart", name |-> 0, role |-> ""],
       [kind |-> "contentStart", name |-> 1, role |-> "SYSTEM"],
       [kind |-> "promptStart", name |-> 0, role |-> ""],
       [kind |-> "textInput", name |-> 1, role |-> ""],
       [kind |-> "contentEnd", name |-> 1, role |-> ""] >>

\* start(): the five events sent after the stream opened, in order.
StartEvents ==
    << [kind |-> "sessionStart", name |-> 0, role |-> ""],
       [kind |-> "promptStart", name |-> 0, role |-> ""],
       [kind |-> "contentStart", name |-> TextName, role |-> "SYSTEM"],
       [kind |-> "textInput", name |-> TextName, role |-> ""],
       [kind |-> "contentEnd", name |-> TextName, role |-> ""] >>

StartPcs == <<"start1", "start2", "start3", "start4", "start5">>

StartIdx(pc) == CHOOSE k \in 1..Len(StartPcs) : StartPcs[k] = pc

StartSend(k) ==
    Sent(StartEvents[k].kind, StartEvents[k].name, StartEvents[k].role,
         "start", "gw")

\* ------------------------------------------------------------ translator
\* The stage of the previous block is kept when the fields carry no marker.
ParseStage_CarriesOver(addFields) ==
    CASE addFields = "SPECULATIVE" -> "SPECULATIVE"
      [] addFields = "FINAL" -> "FINAL"
      [] OTHER -> current_stage

\* json.loads(additionalModelFields).get("generationStage"), None when the
\* field is absent or does not parse.
ParseStage(addFields) ==
    CASE addFields = "SPECULATIVE" -> "SPECULATIVE"
      [] addFields = "FINAL" -> "FINAL"
      [] OTHER -> None

\* The buffer is kept across ASSISTANT blocks.
ResetLines_Never(role, lines) == lines

\* emitted_assistant_lines after a contentStart of the given role.
ResetLines(role, lines) == IF role = "ASSISTANT" THEN <<>> ELSE lines

\* `text and text not in emitted_assistant_lines`
IsNewLine(text, lines) == text # "" /\ ~InSeq(text, lines)

\* ASSISTANT text is sent without looking at the buffer.
TextOut_NoDedup(role, stage, lines, text) ==
    IF role = "USER" THEN << <<"user", text>> >>
    ELSE IF role = "ASSISTANT" /\ text # "" /\ stage # "SPECULATIVE"
         THEN << <<"assistant", text>> >>
         ELSE << >>

\* ASSISTANT text is sent whatever the stage.
TextOut_AllStages(role, stage, lines, text) ==
    IF role = "USER" THEN << <<"user", text>> >>
    ELSE IF role = "ASSISTANT" /\ IsNewLine(text, lines)
         THEN << <<"assistant", text>> >>
         ELSE << >>

\* The buffer test is made before the role is looked at.
TextOut_UserDedup(role, stage, lines, text) ==
    IF ~IsNewLine(text, lines) THEN << >>
    ELSE IF role = "USER" THEN << <<"user", text>> >>
    ELSE IF role = "ASSISTANT" /\ stage # "SPECULATIVE"
         THEN << <<"assistant", text>> >>
         ELSE << >>

\* The textOutput branch: the `text` notifications it sends (none or one),
\* as <<role, content>> pairs, and the dedup buffer it leaves.
TextOut(role, stage, lines, text) ==
    IF role = "USER" THEN << <<"user", text>> >>
    ELSE IF role = "ASSISTANT" /\ IsNewLine(text, lines)
                /\ stage # "SPECULATIVE"
         THEN << <<"assistant", text>> >>
         ELSE << >>

\* The buffer when the textOutput branch reaches its await or its end: a
\* new line of a SPECULATIVE block is appended at once (line 433).
LinesAfterText(role, stage, lines, text) ==
    IF role = "ASSISTANT" /\ IsNewLine(text, lines) /\ stage = "SPECULATIVE"
    THEN Append(lines, text) ELSE lines

\* The buffer when the send of a notification has returned: an assistant
\* text is appended then (line 436); nothing follows the other sends.
LinesAfterSend(e, role, lines) ==
    IF e.k = "textOutput" /\ role = "ASSISTANT"
    THEN Append(lines, e.a) ELSE lines

\* The two tool branches with their notifications exchanged.
ToolNote_Swapped(name) ==
    CASE name = "transfer_call" -> "end_call"
      [] name = "end_call" -> "transfer"
      [] OTHER -> ""

\* The notification type sent for a toolUse event of the given name; ""
\* when the name is not handled.
ToolNote(name) ==
    CASE name = "transfer_call" -> "transfer"
      [] name = "end_call" -> "end_call"
      [] OTHER -> ""

\* ------------------------------------------------------------------ Init
InitWith(nFrames, nEvents, nPrompts) ==
    /\ is_active = FALSE
    /\ audio_content_name = 0
    /\ uuids = 0
    /\ stream = "none"
    /\ sent = << >>
    /\ clientOut = << >>
    /\ received = << >>
    /\ frames = << >>
    /\ gpc = "start"
    /\ tpc = "none"
    /\ ev = NoEvent
    /\ current_role = None
    /\ current_stage = None
    /\ emitted_assistant_lines = << >>
    /\ frameNo = 0
    /\ frameBudget = nFrames
    /\ eventBudget = nEvents
    /\ CURRENT_SYSTEM_PROMPT = DefaultPrompt
    /\ active_connections = {"ws"}
    /\ hpc = 0
    /\ promptBudget = nPrompts

Init == InitWith(MaxFrames, MaxEvents, MaxPrompts)

budgets == <<frames, frameBudget, eventBudget>>

\* ------------------------------------------------- gateway: ws_handler
\* start() that sets is_active before the stream is opened.
GwStartOpen_ActiveEarly ==
    /\ gpc = "start"
    /\ is_active' = TRUE
    /\ \/ /\ stream' = "open"
          /\ sent' = Append(sent, [StartSend(1) EXCEPT !.active = TRUE])
          /\ gpc' = "start1"
       \/ /\ gpc' = "error"
          /\ UNCHANGED <<stream, sent>>
    /\ UNCHANGED <<audio_content_name, uuids, clientOut, received, tpc,
                   trLocals, frameNo, budgets, http>>

\* session.start(): open the stream; on success set is_active and call the
\* first send.  A failure to open raises into ws_handler's except clause.
GwStartOpen ==
    /\ gpc = "start"
    /\ \/ /\ stream' = "open"
          /\ is_active' = TRUE
          /\ sent' = Append(sent, [StartSend(1) EXCEPT !.active = TRUE])
          /\ gpc' = "start1"
       \/ /\ gpc' = "error"
          /\ UNCHANGED <<stream, is_active, sent>>
    /\ UNCHANGED <<audio_content_name, uuids, clientOut, received, tpc,
                   trLocals, frameNo, budgets, http>>

\* start() resumes after one of its sends: the send raised, or the next
\* event is sent; after the last one start() returns and ws_handler sends
\* `ready`.
GwStartNext ==
    /\ InSeq(gpc, StartPcs)
    /\ \/ /\ gpc' = "error"
          /\ UNCHANGED <<sent, clientOut>>
       \/ /\ StartIdx(gpc) < Len(StartPcs)
          /\ sent' = Append(sent, StartSend(StartIdx(gpc) + 1))
          /\ gpc' = StartPcs[StartIdx(gpc) + 1]
          /\ UNCHANGED clientOut
       \/ /\ StartIdx(gpc) = Len(StartPcs)
          /\ clientOut' = Append(clientOut, Note("ready", "", "", "gw"))
          /\ gpc' = "ready"
          /\ UNCHANGED sent
    /\ UNCHANGED <<session, received, tpc, trLocals, frameNo, budgets, http>>

\* ws.send_json(ready) returned: create_task(forward_bedrock_events) and
\* wait in ws.receive() (the task has not run yet); or it raised
\* WebSocketDisconnect (except WebSocketDisconnect: pass, on to the
\* finally block) or another exception (except Exception).
GwLaunch ==
    /\ gpc = "ready"
    /\ \/ /\ gpc' = "recv"
          /\ tpc' = "new"
       \/ /\ gpc' = "finally"
          /\ UNCHANGED tpc
       \/ /\ gpc' = "error"
          /\ UNCHANGED tpc
    /\ UNCHANGED <<session, sent, clientOut, received, trLocals, frameNo,
                   budgets, http>>

\* begin_audio_turn() that sends a contentName other than the one it
\* stores.
BeginAudioTurn_OtherName(op) ==
    /\ audio_content_name' = FreshAudioName
    /\ uuids' = uuids + 2
    /\ sent' = Append(sent, [Sent("contentStart", FreshAudioName + 1, "USER",
                                  op, "gw") EXCEPT !.n = frameNo + 1])

\* begin_audio_turn(): draw a name and send contentStart(AUDIO, USER).
BeginAudioTurn(op) ==
    /\ audio_content_name' = FreshAudioName
    /\ uuids' = uuids + 1
    /\ sent' = Append(sent, [Sent("contentStart", FreshAudioName, "USER",
                                  op, "gw") EXCEPT !.n = frameNo + 1])

\* The receive loop with an end_audio_turn() that does not test
\* audio_content_name.
GwReceive_EndAlways(f) ==
    /\ gpc = "recv"
    /\ frameNo < frameBudget
    /\ frameNo' = frameNo + 1
    /\ CASE f = "beginAudio" ->
              /\ BeginAudioTurn("begin_audio_turn")
              /\ gpc' = "begin"
         [] f = "endAudio" ->
              /\ sent' = Append(sent,
                    [Sent("contentEnd", audio_content_name, "",
                          "end_audio_turn", "gw") EXCEPT !.n = frameNo + 1])
              /\ gpc' = "end"
              /\ UNCHANGED <<audio_content_name, uuids>>
         [] f = "binary" /\ audio_content_name = 0 ->
              /\ BeginAudioTurn("send_audio_chunk")
              /\ gpc' = "chunkBegin"
         [] f = "binary" /\ audio_content_name # 0 ->
              /\ sent' = Append(sent,
                    [Sent("audioInput", audio_content_name, "",
                          "send_audio_chunk", "gw") EXCEPT !.n = frameNo + 1])
              /\ gpc' = "chunk"
              /\ UNCHANGED <<audio_content_name, uuids>>
         [] f = "nonObject" ->
              \* json.loads gives a value without .get: AttributeError
              /\ gpc' = "error"
              /\ UNCHANGED <<audio_content_name, uuids, sent>>
         [] OTHER ->
              \* endAudio with no open turn, empty binary frame, bad JSON,
              \* unrecognized type: back to ws.receive()
              /\ gpc' = "recv"
              /\ UNCHANGED <<audio_content_name, uuids, sent>>
    /\ frames' = Append(frames, f)
    /\ UNCHANGED <<is_active, stream, clientOut, received, tpc, trLocals,
                   frameBudget, eventBudget, http>>

\* One pass of the receive loop up to its first await: read a client frame
\* and dispatch it.
GwReceive(f) ==
    /\ gpc = "recv"
    /\ frameNo < frameBudget
    /\ frameNo' = frameNo + 1
    /\ CASE f = "beginAudio" ->
              /\ BeginAudioTurn("begin_audio_turn")
              /\ gpc' = "begin"
         [] f = "endAudio" /\ audio_content_name # 0 ->
              /\ sent' = Append(sent,
                    [Sent("contentEnd", audio_content_name, "",
                          "end_audio_turn", "gw") EXCEPT !.n = frameNo + 1])
              /\ gpc' = "end"
              /\ UNCHANGED <<audio_content_name, uuids>>
         [] f = "binary" /\ audio_content_name = 0 ->
              /\ BeginAudioTurn("send_audio_chunk")
              /\ gpc' = "chunkBegin"
         [] f = "binary" /\ audio_content_name # 0 ->
              /\ sent' = Append(sent,
                    [Sent("audioInput", audio_content_name, "",
                          "send_audio_chunk", "gw") EXCEPT !.n = frameNo + 1])
              /\ gpc' = "chunk"
              /\ UNCHANGED <<audio_content_name, uuids>>
         [] f = "nonObject" ->
              \* json.loads gives a value without .get: AttributeError
              /\ gpc' = "error"
              /\ UNCHANGED <<audio_content_name, uuids, sent>>
         [] OTHER ->
              \* endAudio with no open turn, empty binary frame, bad JSON,
              \* unrecognized type: back to ws.receive()
              /\ gpc' = "recv"
              /\ UNCHANGED <<audio_content_name, uuids, sent>>
    /\ frames' = Append(frames, f)
    /\ UNCHANGED <<is_active, stream, clientOut, received, tpc, trLocals,
                   frameBudget, eventBudget, http>>

\* end_audio_turn() that leaves audio_content_name set.
GwSendDone_KeepsName ==
    /\ gpc \in {"begin", "chunkBegin", "chunk", "end"}
    /\ \/ /\ gpc' = "error"
          /\ UNCHANGED <<audio_content_name, sent>>
       \/ /\ gpc \in {"begin", "chunk", "end"}
          /\ gpc' = "recv"
          /\ UNCHANGED <<audio_content_name, sent>>
       \/ /\ gpc = "chunkBegin"
          /\ sent' = Append(sent, Sent("audioInput", audio_content_name, "",
                                       "send_audio_chunk", "gw"))
          /\ gpc' = "chunk"
          /\ UNCHANGED audio_content_name
    /\ UNCHANGED <<is_active, uuids, stream, clientOut, received, tpc,
                   trLocals, frameNo, budgets, http>>

\* The gateway resumes after the send of a Session method it called.
GwSendDone ==
    /\ gpc \in {"begin", "chunkBegin", "chunk", "end"}
    /\ \/ /\ gpc' = "error"
          /\ UNCHANGED <<audio_content_name, sent>>
       \/ /\ gpc \in {"begin", "chunk"}
          /\ gpc' = "recv"
          /\ UNCHANGED <<audio_content_name, sent>>
       \/ /\ gpc = "chunkBegin"
          /\ sent' = Append(sent, Sent("audioInput", audio_content_name, "",
                                       "send_audio_chunk", "gw"))
          /\ gpc' = "chunk"
          /\ UNCHANGED audio_content_name
       \/ /\ gpc = "end"
          /\ audio_content_name' = 0
          /\ gpc' = "recv"
          /\ UNCHANGED sent
    /\ UNCHANGED <<is_active, uuids, stream, clientOut, received, tpc,
                   trLocals, frameNo, budgets, http>>

\* ws.receive() returns websocket.disconnect: break out of the loop.
GwDisconnect ==
    /\ gpc = "recv"
    /\ gpc' = "finally"
    /\ UNCHANGED <<session, sent, clientOut, received, tpc, trLocals,
                   frameNo, budgets, http>>

\* ws.receive() raises (not WebSocketDisconnect): except Exception.
GwReceiveFails ==
    /\ gpc = "recv"
    /\ gpc' = "error"
    /\ UNCHANGED <<session, sent, clientOut, received, tpc, trLocals,
                   frameNo, budgets, http>>

\* except Exception: send the `error` notification, best effort.
GwError ==
    /\ gpc = "error"
    /\ clientOut' = Append(clientOut, Note("error", "", "", "gw"))
    /\ gpc' = "errorSent"
    /\ UNCHANGED <<session, sent, received, tpc, trLocals, frameNo, budgets, http>>

GwErrorDone ==
    /\ gpc = "errorSent"
    /\ gpc' = "finally"
    /\ UNCHANGED <<session, sent, clientOut, received, tpc, trLocals,
                   frameNo, budgets, http>>

\* ------------------------------------------------------ Session.close()
\* close() up to its first await: return at once when inactive, else send
\* promptEnd.  pcNext is the caller's next position, ret where the caller
\* goes when close() returns.
CloseBegin(by, pcNext, ret) ==
    IF ~is_active
    THEN /\ pcNext = ret
         /\ UNCHANGED sent
    ELSE /\ sent' = Append(sent, Sent("promptEnd", 0, "", "close", by))
         /\ pcNext = "close1"

\* close() that returns without clearing is_active.
CloseNext_KeepsActive(by, pc, pcNext, ret) ==
    \/ /\ pc = "close1"
       /\ sent' = Append(sent, Sent("sessionEnd", 0, "", "close", by))
       /\ pcNext = "close2"
       /\ UNCHANGED <<stream, is_active>>
    \/ /\ pc \in {"close1", "close2"}
       /\ stream' = "closed"
       /\ pcNext = "close3"
       /\ UNCHANGED <<sent, is_active>>
    \/ /\ pc = "close3"
       /\ is_active' = is_active
       /\ pcNext = ret
       /\ UNCHANGED <<sent, stream>>

\* close() with one try block around the sends and the adapter close: a
\* failed promptEnd skips input_stream.close().
CloseNext_SkipsStreamClose(by, pc, pcNext, ret) ==
    \/ /\ pc = "close1"
       /\ sent' = Append(sent, Sent("sessionEnd", 0, "", "close", by))
       /\ pcNext = "close2"
       /\ UNCHANGED <<stream, is_active>>
    \/ /\ pc = "close1"
       /\ pcNext = "close3"
       /\ UNCHANGED <<sent, stream, is_active>>
    \/ /\ pc = "close2"
       /\ stream' = "closed"
       /\ pcNext = "close3"
       /\ UNCHANGED <<sent, is_active>>
    \/ /\ pc = "close3"
       /\ is_active' = FALSE
       /\ pcNext = ret
       /\ UNCHANGED <<sent, stream>>

\* close() resumes: after promptEnd (returned: send sessionEnd; raised:
\* skip it), after sessionEnd (either way call input_stream.close()), after
\* input_stream.close() (either way clear is_active and return).
CloseNext(by, pc, pcNext, ret) ==
    \/ /\ pc = "close1"
       /\ sent' = Append(sent, Sent("sessionEnd", 0, "", "close", by))
       /\ pcNext = "close2"
       /\ UNCHANGED <<stream, is_active>>
    \/ /\ pc \in {"close1", "close2"}
       /\ stream' = "closed"
       /\ pcNext = "close3"
       /\ UNCHANGED <<sent, is_active>>
    \/ /\ pc = "close3"
       /\ is_active' = FALSE
       /\ pcNext = ret
       /\ UNCHANGED <<sent, stream>>

\* The top of `while session.is_active`.
LoopTop(active) == IF active THEN "loop" ELSE "done"

\* ------------------------------------------------- gateway: the finally
\* The task has been cancelled (forward_task.cancel()) and has not run
\* since: its next run raises CancelledError at its current await.
CancelRequested == gpc = "awaitTask"

\* A finally block that calls session.close() without cancelling the task.
GwTeardown_NoCancel ==
    /\ gpc = "finally"
    /\ active_connections' = active_connections \ {"ws"}
    /\ CloseBegin("gw", gpc', "done")
    /\ UNCHANGED tpc
    /\ UNCHANGED <<session, clientOut, received, trLocals, frameNo, budgets,
                   CURRENT_SYSTEM_PROMPT, hpc, promptBudget>>

\* The finally block up to its first await: remove the connection from
\* active_connections; with no task, go on to session.close(); else
\* forward_task.cancel() and await forward_task.  A task that already
\* returned is awaited without a wait; a task that is still running only
\* has its cancellation requested, and ws_handler waits for it.
GwTeardown ==
    /\ gpc = "finally"
    /\ active_connections' = active_connections \ {"ws"}
    /\ IF tpc \in {"none", "done"}
       THEN CloseBegin("gw", gpc', "done")
       ELSE /\ gpc' = "awaitTask"
            /\ UNCHANGED sent
    /\ UNCHANGED tpc
    /\ UNCHANGED <<session, clientOut, received, trLocals, frameNo, budgets,
                   CURRENT_SYSTEM_PROMPT, hpc, promptBudget>>

\* `await forward_task` that swallows the task's CancelledError and goes
\* on to session.close().
GwTaskAwaited_ClosesAfterCancel ==
    /\ gpc = "awaitTask"
    /\ tpc = "cancelled"
    /\ CloseBegin("gw", gpc', "done")
    /\ UNCHANGED <<session, clientOut, received, tpc, trLocals, frameNo,
                   budgets, http>>

\* ws_handler resumes from `await forward_task`: the cancelled task raises
\* CancelledError, which neither contextlib.suppress(Exception) nor except
\* Exception catches: ws_handler is left with session.close() not called.
GwTaskAwaited ==
    /\ gpc = "awaitTask"
    /\ tpc = "cancelled"
    /\ gpc' = "escaped"
    /\ UNCHANGED <<session, sent, clientOut, received, tpc, trLocals,
                   frameNo, budgets, http>>

GwClose ==
    /\ gpc \in {"close1", "close2", "close3"}
    /\ CloseNext("gw", gpc, gpc', "done")
    /\ UNCHANGED <<audio_content_name, uuids, clientOut, received, tpc,
                   trLocals, frameNo, budgets, http>>

\* ----------------------------------- translator: forward_bedrock_events
\* The contentEnd branch clears current_role after its notification.
TrReceive_EndResets(e) ==
    /\ tpc = "receive" /\ ~CancelRequested
    /\ Len(received) < eventBudget
    /\ received' = Append(received, e)
    /\ ev' = IF e.k \in {"empty", "malformed"} THEN ev ELSE e
    /\ CASE e.k = "contentStart" ->
              /\ current_role' = e.a
              /\ emitted_assistant_lines' =
                     ResetLines(e.a, emitted_assistant_lines)
              /\ current_stage' = ParseStage(e.b)
              /\ clientOut' = Append(clientOut,
                     [Note("contentStart", e.a, "", "tr")
                         EXCEPT !.src = Len(received) + 1])
              /\ tpc' = "notify"
         [] e.k = "textOutput" ->
              LET out == TextOut(current_role, current_stage,
                                 emitted_assistant_lines, e.a)
              IN  /\ emitted_assistant_lines' =
                         LinesAfterText(current_role, current_stage,
                                        emitted_assistant_lines, e.a)
                  /\ IF out = << >>
                     THEN /\ tpc' = LoopTop(is_active)
                          /\ UNCHANGED clientOut
                     ELSE /\ clientOut' = Append(clientOut,
                                [Note("text", out[1][1], out[1][2], "tr")
                                    EXCEPT !.src = Len(received) + 1])
                          /\ tpc' = "notify"
                  /\ UNCHANGED <<current_role, current_stage>>
         [] e.k = "audioOutput" ->
              /\ clientOut' = Append(clientOut,
                     [Note("audio", "", "", "tr")
                         EXCEPT !.src = Len(received) + 1])
              /\ tpc' = "notify"
              /\ UNCHANGED <<current_role, current_stage,
                             emitted_assistant_lines>>
         [] e.k = "contentEnd" ->
              /\ clientOut' = Append(clientOut,
                     [Note("contentEnd", current_role, "", "tr")
                         EXCEPT !.src = Len(received) + 1])
              /\ tpc' = "notify"
              /\ current_role' = None
              /\ UNCHANGED <<current_stage, emitted_assistant_lines>>
         [] e.k = "toolUse" /\ ToolNote(e.a) # "" ->
              /\ clientOut' = Append(clientOut,
                     [Note(ToolNote(e.a), "", "", "tr")
                         EXCEPT !.src = Len(received) + 1])
              /\ tpc' = "toolNotify"
              /\ UNCHANGED <<current_role, current_stage,
                             emitted_assistant_lines>>
         [] e.k = "malformed" ->
              \* json.loads / msg.get raises before `ev` is assigned:
              \* except Exception: pass
              /\ tpc' = "done"
              /\ UNCHANGED <<clientOut, current_role, current_stage,
                             emitted_assistant_lines>>
         [] OTHER ->
              \* a frame without bytes (`continue`, `ev` not assigned), a
              \* toolUse of another name
              /\ tpc' = LoopTop(is_active)
              /\ UNCHANGED <<clientOut, current_role, current_stage,
                             emitted_assistant_lines>>
    /\ UNCHANGED <<session, sent, gpc, frameNo, budgets, http>>

\* The task's first run: the locals are set and the loop is entered, up
\* to await_output().
TrStart ==
    /\ tpc = "new" /\ ~CancelRequested
    /\ tpc' = LoopTop(is_active)
    /\ ev' = ev
    /\ current_role' = None
    /\ current_stage' = None
    /\ emitted_assistant_lines' = << >>
    /\ UNCHANGED <<session, sent, clientOut, received, gpc, frameNo,
                   budgets, http>>

\* The task's first run after forward_task.cancel(): CancelledError is
\* raised at its await (before its first line when it never ran); no
\* handler of the task catches it (except Exception does not).
TrCancelled ==
    /\ CancelRequested
    /\ tpc # "cancelled"
    /\ tpc' = "cancelled"
    /\ UNCHANGED <<session, sent, clientOut, received, gpc, trLocals,
                   frameNo, budgets, http>>

\* await_output() returned: call output[1].receive() and wait for it.
TrAwaitOutput ==
    /\ tpc = "loop" /\ ~CancelRequested
    /\ tpc' = "receive"
    /\ UNCHANGED <<session, sent, clientOut, received, gpc, trLocals,
                   frameNo, budgets, http>>

\* receive() delivers a frame; handle it up to the next await.
TrReceive(e) ==
    /\ tpc = "receive" /\ ~CancelRequested
    /\ Len(received) < eventBudget
    /\ received' = Append(received, e)
    /\ ev' = IF e.k \in {"empty", "malformed"} THEN ev ELSE e
    /\ CASE e.k = "contentStart" ->
              /\ current_role' = e.a
              /\ emitted_assistant_lines' =
                     ResetLines(e.a, emitted_assistant_lines)
              /\ current_stage' = ParseStage(e.b)
              /\ clientOut' = Append(clientOut,
                     [Note("contentStart", e.a, "", "tr")
                         EXCEPT !.src = Len(received) + 1])
              /\ tpc' = "notify"
         [] e.k = "textOutput" ->
              LET out == TextOut(current_role, current_stage,
                                 emitted_assistant_lines, e.a)
              IN  /\ emitted_assistant_lines' =
                         LinesAfterText(current_role, current_stage,
                                        emitted_assistant_lines, e.a)
                  /\ IF out = << >>
                     THEN /\ tpc' = LoopTop(is_active)
                          /\ UNCHANGED clientOut
                     ELSE /\ clientOut' = Append(clientOut,
                                [Note("text", out[1][1], out[1][2], "tr")
                                    EXCEPT !.src = Len(received) + 1])
                          /\ tpc' = "notify"
                  /\ UNCHANGED <<current_role, current_stage>>
         [] e.k = "audioOutput" ->
              /\ clientOut' = Append(clientOut,
                     [Note("audio", "", "", "tr")
                         EXCEPT !.src = Len(received) + 1])
              /\ tpc' = "notify"
              /\ UNCHANGED <<current_role, current_stage,
                             emitted_assistant_lines>>
         [] e.k = "contentEnd" ->
              /\ clientOut' = Append(clientOut,
                     [Note("contentEnd", current_role, "", "tr")
                         EXCEPT !.src = Len(received) + 1])
              /\ tpc' = "notify"
              /\ UNCHANGED <<current_role, current_stage,
                             emitted_assistant_lines>>
         [] e.k = "toolUse" /\ ToolNote(e.a) # "" ->
              /\ clientOut' = Append(clientOut,
                     [Note(ToolNote(e.a), "", "", "tr")
                         EXCEPT !.src = Len(received) + 1])
              /\ tpc' = "toolNotify"
              /\ UNCHANGED <<current_role, current_stage,
                             emitted_assistant_lines>>
         [] e.k = "malformed" ->
              \* json.loads / msg.get raises before `ev` is assigned:
              \* except Exception: pass
              /\ tpc' = "done"
              /\ UNCHANGED <<clientOut, current_role, current_stage,
                             emitted_assistant_lines>>
         [] OTHER ->
              \* a frame without bytes (`continue`, `ev` not assigned), a
              \* toolUse of another name
              /\ tpc' = LoopTop(is_active)
              /\ UNCHANGED <<clientOut, current_role, current_stage,
                             emitted_assistant_lines>>
    /\ UNCHANGED <<session, sent, gpc, frameNo, budgets, http>>

\* await_output() or receive() raises: the loop ends silently.
TrReceiveFails ==
    /\ tpc \in {"loop", "receive"} /\ ~CancelRequested
    /\ tpc' = "done"
    /\ UNCHANGED <<session, sent, clientOut, received, gpc, trLocals,
                   frameNo, budgets, http>>

\* ws.send_json of a contentStart/text/audio/contentEnd notification
\* returned (an assistant text is appended to the buffer, then the next
\* loop pass) or raised (loop ends, buffer as it was).
TrNotified ==
    /\ tpc = "notify" /\ ~CancelRequested
    /\ \/ /\ tpc' = LoopTop(is_active)
          /\ emitted_assistant_lines' =
                 LinesAfterSend(ev, current_role, emitted_assistant_lines)
       \/ /\ tpc' = "done"
          /\ UNCHANGED emitted_assistant_lines
    /\ UNCHANGED <<session, sent, clientOut, received, gpc, ev, current_role,
                   current_stage, frameNo, budgets, http>>

\* ws.send_json of the transfer/end_call notification returned: call
\* session.close(); or it raised: the loop ends.
TrToolNotified ==
    /\ tpc = "toolNotify" /\ ~CancelRequested
    /\ \/ CloseBegin("tr", tpc', LoopTop(is_active))
       \/ /\ tpc' = "done"
          /\ UNCHANGED sent
    /\ UNCHANGED <<session, clientOut, received, gpc, trLocals, frameNo,
                   budgets, http>>

TrClose ==
    /\ tpc \in {"close1", "close2", "close3"} /\ ~CancelRequested
    /\ CloseNext("tr", tpc, tpc', LoopTop(is_active'))
    /\ UNCHANGED <<audio_content_name, uuids, clientOut, received, gpc,
                   trLocals, frameNo, budgets, http>>

\* ------------------------------------ POST /api/system-prompt handler
\* update_system_prompt() up to its first await: an empty prompt is
\* refused (400); else the global is set and prompt_updated is sent to the
\* connection when it is in active_connections.  Every request runs as a
\* task of its own, whatever the earlier ones are doing.
UpdateSystemPrompt(p) ==
    /\ promptBudget > 0
    /\ promptBudget' = promptBudget - 1
    /\ IF Strip(p) = << >>
       THEN UNCHANGED <<CURRENT_SYSTEM_PROMPT, clientOut, hpc>>
       ELSE /\ CURRENT_SYSTEM_PROMPT' = Strip(p)
            /\ IF "ws" \in active_connections
               THEN /\ clientOut' = Append(clientOut,
                           Note("prompt_updated", "", "", "http"))
                    /\ hpc' = hpc + 1
               ELSE UNCHANGED <<clientOut, hpc>>
    /\ UNCHANGED <<session, sent, received, gpc, tpc, trLocals, frameNo,
                   budgets, active_connections>>

\* The broadcast send of one request returned, or it raised: the
\* connection is removed from active_connections.
UpdateNotified ==
    /\ hpc > 0
    /\ hpc' = hpc - 1
    /\ \/ UNCHANGED active_connections
       \/ active_connections' = active_connections \ {"ws"}
    /\ UNCHANGED <<session, sent, clientOut, received, gpc, tpc, trLocals,
                   frameNo, budgets, CURRENT_SYSTEM_PROMPT, promptBudget>>

\* --------------------------------------------------------- specifications
Next ==
    \/ GwStartOpen
    \/ GwStartNext
    \/ GwLaunch
    \/ \E f \in Frames : GwReceive(f)
    \/ GwSendDone
    \/ GwDisconnect
    \/ GwReceiveFails
    \/ GwError
    \/ GwErrorDone
    \/ GwTeardown
    \/ GwTaskAwaited
    \/ GwClose
    \/ TrStart
    \/ TrCancelled
    \/ TrAwaitOutput
    \/ \E e \in UpEvents : TrReceive(e)
    \/ TrReceiveFails
    \/ TrNotified
    \/ TrToolNotified
    \/ TrClose
    \/ \E p \in Prompts : UpdateSystemPrompt(p)
    \/ UpdateNotified

Spec == Init /\ [][Next]_vars

\* The connection with no POST /api/system-prompt request during its life.
InitCore == InitWith(MaxFrames, MaxEvents, 0)

NextCore ==
    \/ GwStartOpen
    \/ GwStartNext
    \/ GwLaunch
    \/ \E f \in Frames : GwReceive(f)
    \/ GwSendDone
    \/ GwDisconnect
    \/ GwReceiveFails
    \/ GwError
    \/ GwErrorDone
    \/ GwTeardown
    \/ GwTaskAwaited
    \/ GwClose
    \/ TrStart
    \/ TrCancelled
    \/ TrAwaitOutput
    \/ \E e \in UpEvents : TrReceive(e)
    \/ TrReceiveFails
    \/ TrNotified
    \/ TrToolNotified
    \/ TrClose

SpecCore == InitCore /\ [][NextCore]_vars

\* The connection with a client that sends no frame, a silent upstream and
\* system-prompt requests at any time.
InitHttp == InitWith(0, 0, HttpPrompts)

NextHttp ==
    \/ GwStartOpen
    \/ GwStartNext
    \/ GwLaunch
    \/ GwDisconnect
    \/ GwReceiveFails
    \/ GwError
    \/ GwErrorDone
    \/ GwTeardown
    \/ GwTaskAwaited
    \/ GwClose
    \/ TrStart
    \/ TrCancelled
    \/ TrAwaitOutput
    \/ TrReceiveFails
    \/ \E p \in Prompts : UpdateSystemPrompt(p)
    \/ UpdateNotified

SpecHttp == InitHttp /\ [][NextHttp]_vars

\* The same connection with a client that sends no frame before it leaves,
\* and a longer upstream conversation.
InitTr == InitWith(0, TrEvents, 0)

NextTr ==
    \/ GwStartOpen
    \/ GwStartNext
    \/ GwLaunch
    \/ GwDisconnect
    \/ GwReceiveFails
    \/ GwError
    \/ GwErrorDone
    \/ GwTeardown
    \/ GwTaskAwaited
    \/ GwClose
    \/ TrStart
    \/ TrCancelled
    \/ TrAwaitOutput
    \/ \E e \in UpEvents : TrReceive(e)
    \/ TrReceiveFails
    \/ TrNotified
    \/ TrToolNotified
    \/ TrClose

SpecTr == InitTr /\ [][NextTr]_vars

\* The same connection and the same steps, with one upstream event more.
InitTrLong == InitWith(0, LongEvents, 0)

SpecTrLong == InitTrLong /\ [][NextTr]_vars

\* The same connection with a silent upstream (the translator only waits,
\* or its receive fails) and a longer client conversation.
InitGw == InitWith(GwFrames, 0, 0)

NextGw ==
    \/ GwStartOpen
    \/ GwStartNext
    \/ GwLaunch
    \/ \E f \in Frames : GwReceive(f)
    \/ GwSendDone
    \/ GwDisconnect
    \/ GwReceiveFails
    \/ GwError
    \/ GwErrorDone
    \/ GwTeardown
    \/ GwTaskAwaited
    \/ GwClose
    \/ TrStart
    \/ TrCancelled
    \/ TrAwaitOutput
    \/ TrReceiveFails

SpecGw == InitGw /\ [][NextGw]_vars

\* ------------------------------------------------------- observations
SentIdx == 1..Len(sent)
OutIdx == 1..Len(clientOut)
RecvIdx == 1..Len(received)

Last(q) == q[Len(q)]

ToolNames == {"transfer_call", "end_call"}

\* An audio-turn send: one made by begin_audio_turn, send_audio_chunk or
\* end_audio_turn.
IsTurnSend(x) ==
    x.op \in {"begin_audio_turn", "send_audio_chunk", "end_audio_turn"}

\* The translator called close() for a tool invocation and close() returned.
ToolClosed ==
    /\ ev.k = "toolUse" /\ ev.a \in ToolNames
    /\ \E i \in SentIdx : sent[i].by = "tr"
    /\ tpc \notin {"toolNotify", "close1", "close2", "close3", "cancelled"}

\* ws_handler has returned or has been left by an exception.
HandlerLeft == gpc \in {"done", "escaped"}

\* ---------------------------------------------------------------- claims

\* C1: once the translator has handled a toolUse event named end_call or
\* transfer_call (notification sent, close() returned) the session is
\* inactive, and the gateway loop makes no contentStart, audioInput or
\* contentEnd send for a client frame that arrives afterwards: no
\* audio-turn send is ever made on an inactive session.
C1_NoSendAfterToolClose ==
    /\ ToolClosed => ~is_active
    /\ \A i \in SentIdx : IsTurnSend(sent[i]) => sent[i].active

\* C2: whenever ws_handler is left after a successful start (the translator
\* task was launched), it returned normally (no exception or cancellation
\* escaped the teardown), close() sent promptEnd upstream and is_active is
\* false.
C2_TeardownCloses ==
    (HandlerLeft /\ tpc # "none") =>
        /\ gpc = "done"
        /\ ~is_active
        /\ \E i \in SentIdx : sent[i].kind = "promptEnd"

\* C3: at most one SYSTEM contentStart is ever sent; what is sent upstream
\* begins with sessionStart, promptStart, then the SYSTEM text block
\* (contentStart, textInput, contentEnd on text_content_name) in that
\* order; the whole block has been sent once start() returned (`ready` was
\* sent); and every USER audio contentStart comes after the block's
\* contentEnd.
C3_OneSystemBlock ==
    LET expected == << <<"sessionStart", 0, "">>, <<"promptStart", 0, "">>,
                       <<"contentStart", TextName, "SYSTEM">>,
                       <<"textInput", TextName, "">>,
                       <<"contentEnd", TextName, "">> >>
    IN  /\ Cardinality({i \in SentIdx : sent[i].kind = "contentStart"
                                          /\ sent[i].role = "SYSTEM"}) <= 1
        /\ Cardinality({i \in SentIdx : sent[i].kind = "textInput"}) <= 1
        /\ \A i \in SentIdx :
               (\/ sent[i].kind \in {"sessionStart", "promptStart",
                                     "textInput"}
                \/ sent[i].name = TextName
                \/ sent[i].role = "SYSTEM") =>
                   /\ i <= 5
                   /\ <<sent[i].kind, sent[i].name, sent[i].role>>
                          = expected[i]
        /\ (\E j \in OutIdx : clientOut[j].type = "ready") => Len(sent) >= 5
        /\ \A i \in SentIdx :
               (sent[i].kind = "contentStart" /\ sent[i].role = "USER") =>
                   /\ i > 5
                   /\ sent[5].kind = "contentEnd"
                   /\ sent[5].name = TextName

\* C3 witness: a started session whose SYSTEM block is followed by two USER
\* audio contentStart events.
C3_Witness ==
    /\ \E j \in OutIdx : clientOut[j].type = "ready"
    /\ Cardinality({i \in SentIdx : sent[i].kind = "contentStart"
                                      /\ sent[i].role = "USER"}) >= 2
    /\ sent[3].role = "SYSTEM"

\* Two sends belong to one Session method invocation.
SameCall(x, y) == x.by = y.by /\ x.op = y.op /\ x.n = y.n

\* C4: the sends of one Session method invocation are contiguous in the
\* upstream stream: no send of another invocation lies between two of them.
C4_Contiguous ==
    \A i \in SentIdx : \A k \in SentIdx :
        (i < k /\ SameCall(sent[i], sent[k])) =>
            \A j \in i..k : SameCall(sent[i], sent[j])

\* Audio content names whose contentStart was sent and whose contentEnd was
\* not.
OpenAudio ==
    {sent[i].name : i \in {j \in SentIdx : sent[j].kind = "contentStart"
                                             /\ sent[j].role = "USER"}}
    \ {sent[i].name : i \in {j \in SentIdx : sent[j].kind = "contentEnd"}}

\* C5: at most one audio content block is open upstream in every reachable
\* state.
C5_OneOpenAudio == Cardinality(OpenAudio) <= 1

\* The last contentStart read before upstream event m (0: none).
LastCS(m) ==
    LET cs == {j \in 1..(m - 1) : received[j].k = "contentStart"}
    IN  IF cs = {} THEN 0 ELSE CHOOSE j \in cs : \A x \in cs : x <= j

\* Upstream event m arrived inside a content block of this role / with
\* this generationStage marker in its contentStart.
InBlockOf(m, role) == LastCS(m) # 0 /\ received[LastCS(m)].a = role
InStage(m, stage) == LastCS(m) # 0 /\ received[LastCS(m)].b = stage

\* The notifications the translator sent for upstream event m.
NotesFor(m) == {j \in OutIdx : clientOut[j].src = m}

IsAssistantText(x) == x.type = "text" /\ x.role = "assistant"

\* C6: two `text` notifications with role assistant and identical content
\* are never produced within one ASSISTANT content block: an ASSISTANT
\* contentStart was read between the events that caused them.
C6_AssistantDedup ==
    \A i \in OutIdx : \A j \in OutIdx :
        (/\ i < j
         /\ IsAssistantText(clientOut[i]) /\ IsAssistantText(clientOut[j])
         /\ clientOut[i].content = clientOut[j].content) =>
            \E m \in RecvIdx :
                /\ clientOut[i].src < m /\ m < clientOut[j].src
                /\ received[m].k = "contentStart"
                /\ received[m].a = "ASSISTANT"

\* C6 witness: textOutput "a" was read twice in one ASSISTANT block that is
\* not SPECULATIVE, both were handled, and one notification was sent.
C6_Witness ==
    \E i \in RecvIdx : \E j \in RecvIdx :
        /\ i < j /\ tpc = "loop"
        /\ received[i] = UpEvent("textOutput", "a", "")
        /\ received[j] = UpEvent("textOutput", "a", "")
        /\ LastCS(i) = LastCS(j)
        /\ InBlockOf(i, "ASSISTANT") /\ InStage(i, "FINAL")
        /\ Cardinality(NotesFor(i)) = 1 /\ NotesFor(j) = {}

\* C7: no assistant `text` notification is sent for a textOutput event read
\* in a block whose contentStart carried SPECULATIVE; the text of such an
\* event is in the emitted-lines buffer once the event is handled.
C7_SpeculativeSilent ==
    /\ \A j \in OutIdx :
           IsAssistantText(clientOut[j]) =>
               ~InStage(clientOut[j].src, "SPECULATIVE")
    /\ \A m \in RecvIdx :
           (/\ received[m].k = "textOutput"
            /\ InBlockOf(m, "ASSISTANT") /\ InStage(m, "SPECULATIVE")) =>
               /\ NotesFor(m) = {}
               /\ (m = Len(received) /\ received[m].a # "") =>
                      InSeq(received[m].a, emitted_assistant_lines)

\* C7 witness: a textOutput "a" read in a SPECULATIVE ASSISTANT block has
\* been handled: nothing was sent for it and it is in the buffer.
C7_Witness ==
    /\ tpc = "loop" /\ Len(received) >= 2
    /\ ev = UpEvent("textOutput", "a", "")
    /\ InBlockOf(Len(received), "ASSISTANT")
    /\ InStage(Len(received), "SPECULATIVE")
    /\ emitted_assistant_lines = <<"a">>
    /\ NotesFor(Len(received)) = {}

\* The notifications sent by the translator, without the ghost field.
TranslatorNotes ==
    LET tr == SelectSeq(clientOut, LAMBDA x : x.src > 0)
    IN  [j \in 1..Len(tr) |-> <<tr[j].type, tr[j].role, tr[j].content>>]

Scenario8(t) ==
    << UpEvent("contentStart", "ASSISTANT", "SPECULATIVE"),
       UpEvent("textOutput", t, ""),
       UpEvent("contentStart", "ASSISTANT", "FINAL"),
       UpEvent("textOutput", t, "") >>

\* C8 as stated, for every text t: when upstream delivered
\* contentStart(ASSISTANT, SPECULATIVE), textOutput t,
\* contentStart(ASSISTANT, FINAL), textOutput t, the client was sent two
\* contentStart notifications and then one `text` notification for t.
\* It fails for the empty text, which is never forwarded (line 429).
C8_AnyText ==
    \A t \in Texts :
        received = Scenario8(t) =>
            TranslatorNotes = << <<"contentStart", "ASSISTANT", "">>,
                                 <<"contentStart", "ASSISTANT", "">>,
                                 <<"text", "assistant", t>> >>

\* C8: when upstream delivered contentStart(ASSISTANT, SPECULATIVE),
\* textOutput t, contentStart(ASSISTANT, FINAL), textOutput t, the client
\* was sent two contentStart notifications and then, for a non-empty t,
\* one `text` notification for t and nothing else; for the empty t it was
\* sent the two contentStart notifications and no `text` notification.
C8_FinalAfterSpeculative ==
    \A t \in Texts :
        received = Scenario8(t) =>
            TranslatorNotes =
                IF t = ""
                THEN << <<"contentStart", "ASSISTANT", "">>,
                        <<"contentStart", "ASSISTANT", "">> >>
                ELSE << <<"contentStart", "ASSISTANT", "">>,
                        <<"contentStart", "ASSISTANT", "">>,
                        <<"text", "assistant", t>> >>

\* C8 witness: the scenario has been read and handled to the end.
C8_Witness ==
    /\ received = Scenario8("a")
    /\ tpc = "loop"
    /\ Len(clientOut) = 4

\* C9: every textOutput event read in a USER block causes exactly one
\* `text` notification, with role user and the event's content.
C9_UserNeverDeduped ==
    \A m \in RecvIdx :
        (received[m].k = "textOutput" /\ InBlockOf(m, "USER")) =>
            /\ Cardinality(NotesFor(m)) = 1
            /\ \A j \in NotesFor(m) :
                   /\ clientOut[j].type = "text"
                   /\ clientOut[j].role = "user"
                   /\ clientOut[j].content = received[m].a

\* C9 witness: two identical consecutive USER textOutput events, two
\* notifications.
C9_Witness ==
    \E m \in RecvIdx :
        /\ m + 1 \in RecvIdx /\ tpc = "loop"
        /\ received[m] = UpEvent("textOutput", "a", "")
        /\ received[m + 1] = UpEvent("textOutput", "a", "")
        /\ InBlockOf(m, "USER") /\ InBlockOf(m + 1, "USER")
        /\ \E i \in OutIdx : \E j \in OutIdx :
               /\ i < j
               /\ clientOut[i].src = m /\ clientOut[j].src = m + 1
               /\ clientOut[i].content = "a" /\ clientOut[j].content = "a"

\* The tool notification that matches the event being handled was sent.
ToolNotified ==
    \E j \in OutIdx :
        /\ clientOut[j].src = Len(received)
        /\ \/ ev.a = "transfer_call" /\ clientOut[j].type = "transfer"
           \/ ev.a = "end_call" /\ clientOut[j].type = "end_call"

C10_Inv ==
    /\ tpc = "toolNotify" =>
           /\ ev.k = "toolUse" /\ ToolNotified
           /\ \A i \in SentIdx : sent[i].kind # "promptEnd"
    /\ (\E i \in SentIdx : sent[i].by = "tr") =>
           /\ ev.k = "toolUse" /\ ToolNotified
           /\ Cardinality({j \in OutIdx :
                  clientOut[j].type \in {"transfer", "end_call"}}) = 1
    /\ ToolClosed => (~is_active /\ tpc = "done")

C10_OtherTool ==
    (/\ received' # received
     /\ Last(received').k = "toolUse"
     /\ Last(received').a \notin ToolNames) =>
        /\ clientOut' = clientOut
        /\ sent' = sent
        /\ is_active /\ is_active'
        /\ tpc' = "loop"

\* C10: the transfer / end_call notification is sent before the translator
\* sends promptEnd (and before any promptEnd at all), only a toolUse named
\* transfer_call or end_call makes the translator send upstream, and when
\* its close() has returned is_active is false and the translator loop has
\* ended; reading a toolUse event of another name sends no notification,
\* sends nothing upstream and leaves the session active and the loop
\* running.
C10_ToolUse == []C10_Inv /\ [][C10_OtherTool]_vars

\* C10 witness: an end_call was handled to the end: notification sent,
\* promptEnd and sessionEnd sent by the translator, session inactive.
C10_Witness ==
    /\ ToolClosed /\ ev.a = "end_call"
    /\ tpc = "done" /\ ~is_active
    /\ \E j \in OutIdx : clientOut[j].type = "end_call"
    /\ \E i \in SentIdx : sent[i].kind = "sessionEnd" /\ sent[i].by = "tr"

\* The sends made for client frames (not those of start() and close()),
\* without the ghost fields.
TurnSends ==
    LET t == SelectSeq(sent, IsTurnSend)
    IN  [j \in 1..Len(t) |-> <<t[j].kind, t[j].name, t[j].role>>]

\* C11: every audioInput names a content whose contentStart(AUDIO, USER)
\* was sent earlier and whose contentEnd was not sent before it; the sends
\* of one send_audio_chunk call are either its audioInput alone or one
\* contentStart followed by the audioInput, both with the same name, and a
\* binary frame read with a turn open sends no contentStart.
C11_AudioInputInOpenBlock ==
    /\ \A i \in SentIdx :
           sent[i].kind = "audioInput" =>
               /\ sent[i].name # 0
               /\ \E j \in 1..(i - 1) :
                      /\ sent[j].kind = "contentStart"
                      /\ sent[j].role = "USER"
                      /\ sent[j].name = sent[i].name
               /\ \A j \in 1..(i - 1) :
                      sent[j].kind = "contentEnd" =>
                          sent[j].name # sent[i].name
    /\ \A i \in SentIdx : \A j \in SentIdx :
           (/\ i < j
            /\ sent[i].op = "send_audio_chunk"
            /\ sent[j].op = "send_audio_chunk"
            /\ sent[i].n = sent[j].n) =>
               /\ sent[i].kind = "contentStart"
               /\ sent[j].kind = "audioInput"
               /\ sent[i].name = sent[j].name
    /\ \A n \in 1..Len(frames) :
           (frames[n] = "binary" /\ (n < Len(frames) \/ gpc = "recv")) =>
               Cardinality({i \in SentIdx : sent[i].n = n
                               /\ sent[i].kind = "audioInput"}) = 1

\* C11 witness: a binary frame read with no turn open (after a turn was
\* closed) sent a contentStart and then its audioInput with a fresh name.
C11_Witness ==
    /\ frames = <<"beginAudio", "endAudio", "binary">>
    /\ gpc = "recv"
    /\ TurnSends = << <<"contentStart", 2, "USER">>, <<"contentEnd", 2, "">>,
                      <<"contentStart", 3, "USER">>,
                      <<"audioInput", 3, "">> >>

Scenario12 == <<"beginAudio", "binary", "binary", "endAudio">>

\* C12: after the client frames beginAudio, binary, binary, endAudio on a
\* freshly started session have been handled, the session has sent one
\* contentStart(AUDIO, USER), two audioInput events with its content name
\* and one contentEnd for that name, and audio_content_name is None; it
\* never sends more than that for these frames.
C12_OneTurn ==
    frames = Scenario12 =>
        /\ Len(TurnSends) <= 4
        /\ gpc = "recv" =>
               /\ \E x \in 2..(uuids + 1) :
                      TurnSends = << <<"contentStart", x, "USER">>,
                                     <<"audioInput", x, "">>,
                                     <<"audioInput", x, "">>,
                                     <<"contentEnd", x, "">> >>
               /\ audio_content_name = 0

\* C12 witness: the four frames have been read and handled.
C12_Witness ==
    /\ frames = Scenario12
    /\ gpc = "recv"
    /\ Len(sent) = 9
    /\ sent[7].kind = "audioInput" /\ sent[8].kind = "audioInput"
    /\ audio_content_name = 0

C13_Inv ==
    /\ (Len(frames) >= 1 /\ frames[Len(frames)] = "endAudio"
        /\ gpc = "recv") => audio_content_name = 0
    /\ \A n \in 1..Len(frames) :
           (n >= 2 /\ frames[n - 1] = "endAudio" /\ frames[n] = "endAudio")
               => \A i \in SentIdx : sent[i].n # n

C13_NoOpStep ==
    (frames' = Append(frames, "endAudio") /\ audio_content_name = 0) =>
        /\ sent' = sent
        /\ clientOut' = clientOut
        /\ UNCHANGED session
        /\ gpc' = gpc

\* C13: end_audio_turn() called with no turn open sends nothing upstream
\* and changes no session state (the loop goes on to the next frame); once
\* an endAudio frame has been handled no turn is open, so an endAudio frame
\* that directly follows another sends nothing.
C13_EndIdempotent == []C13_Inv /\ [][C13_NoOpStep]_vars

\* C13 witness: a turn was opened and endAudio was read twice: one
\* contentEnd was sent and no turn is open.
C13_Witness ==
    /\ frames = <<"beginAudio", "endAudio", "endAudio">>
    /\ gpc = "recv"
    /\ audio_content_name = 0
    /\ TurnSends = << <<"contentStart", 2, "USER">>,
                      <<"contentEnd", 2, "">> >>

ClosePcs == {"close1", "close2", "close3"}

C14_Inv ==
    /\ (gpc = "close3" \/ tpc = "close3") => stream = "closed"
    /\ gpc = "done" => ~is_active
    /\ (tpc = "done" /\ \E i \in SentIdx : sent[i].by = "tr") => ~is_active

C14_CloseStep ==
    /\ gpc \in ClosePcs => gpc' \in ClosePcs \cup {"done"}
    /\ (gpc \in ClosePcs /\ gpc' = "done") => ~is_active'
    /\ tpc \in ClosePcs => tpc' \in ClosePcs \cup {"done", "cancelled"}
    /\ (tpc \in ClosePcs /\ tpc' = "done") => ~is_active'
    /\ (gpc = "finally" /\ ~is_active /\ gpc' # gpc /\ gpc' # "escaped") =>
           /\ gpc' = "done"
           /\ sent' = sent
           /\ UNCHANGED session

\* C14: close() on an active session never takes its caller to an
\* exception path: whichever of promptEnd, sessionEnd and the adapter close
\* fail, the adapter close is attempted before the last step and is_active
\* is false when close() returns; close() on an inactive session sends
\* nothing and changes nothing.
C14_CloseBestEffort == []C14_Inv /\ [][C14_CloseStep]_vars

\* C14 witness: the gateway's close() returned after its promptEnd send
\* failed: no sessionEnd was sent, the adapter close was attempted and the
\* session is inactive.
C14_Witness ==
    /\ gpc = "done" /\ stream = "closed" /\ ~is_active
    /\ \E i \in SentIdx : sent[i].kind = "promptEnd" /\ sent[i].by = "gw"
    /\ \A i \in SentIdx : sent[i].kind # "sessionEnd"

ErrorNotes == {j \in OutIdx : clientOut[j].type = "error"}

\* start() tried to open the upstream stream and the open failed.
OpenFailed == stream = "none" /\ gpc # "start"

\* C15: when the open of the upstream stream fails inside start(), the
\* failure reaches ws_handler's except clause, is_active stays false,
\* nothing is ever sent upstream (the teardown's close() included), `ready`
\* is never sent, the translator task is never launched, and the client is
\* sent exactly one `error` notification (and nothing else but the
\* prompt_updated broadcasts of POST /api/system-prompt).
C15_OpenFails ==
    OpenFailed =>
        /\ ~is_active
        /\ sent = << >>
        /\ tpc = "none" /\ received = << >>
        /\ gpc \in {"error", "errorSent", "finally", "done"}
        /\ \A j \in OutIdx :
               clientOut[j].type \in {"error", "prompt_updated"}
        /\ Cardinality(ErrorNotes) <= 1
        /\ gpc \in {"errorSent", "finally", "done"} =>
               Cardinality(ErrorNotes) = 1

\* C15 witness: ws_handler returned after a failed open.
C15_Witness ==
    /\ OpenFailed /\ gpc = "done"
    /\ Cardinality(ErrorNotes) = 1

\* C16: reading a text frame that is unparseable JSON, JSON that is not an
\* object with a type field, or an object of another type sends nothing
\* upstream, sends no notification, changes no session state and takes the
\* loop back to ws.receive().
C16_TextNoiseIgnored ==
    [][(/\ frames' # frames
        /\ Last(frames') \in {"badJson", "otherType", "nonObject"}) =>
           /\ sent' = sent
           /\ clientOut' = clientOut
           /\ UNCHANGED session
           /\ gpc' = "recv"]_vars

\* C17: reading a malformed upstream frame sends no notification and leaves
\* the translator in its loop, ready to translate the next event.
C17_MalformedDropped ==
    [][(received' # received /\ Last(received').k = "malformed") =>
           /\ clientOut' = clientOut
           /\ tpc' = "loop"]_vars

\* The notifications sent by the translator, and its upstream sends.
TrNotes == SelectSeq(clientOut, LAMBDA x : x.src > 0)
TrSends == SelectSeq(sent, LAMBDA x : x.by = "tr")

\* C18: the translator's notifications are in the order of the upstream
\* events that caused them, at most one per event, each of the type that
\* belongs to its event; every contentStart, audioOutput, contentEnd and
\* transfer_call / end_call event has exactly one (audioOutput whatever
\* the role and stage); `ready` is sent once, after start() sent its five
\* events and before every translator notification.
C18_OrderPreserved ==
    /\ \A i \in OutIdx : \A j \in OutIdx :
           (i < j /\ clientOut[i].src > 0) =>
               (clientOut[j].src = 0 \/ clientOut[i].src < clientOut[j].src)
    /\ \A j \in OutIdx :
           clientOut[j].src > 0 =>
               LET e == received[clientOut[j].src]
                   t == clientOut[j].type
               IN  \/ e.k = "contentStart" /\ t = "contentStart"
                   \/ e.k = "textOutput" /\ t = "text"
                   \/ e.k = "audioOutput" /\ t = "audio"
                   \/ e.k = "contentEnd" /\ t = "contentEnd"
                   \/ e.k = "toolUse" /\ e.a = "transfer_call"
                          /\ t = "transfer"
                   \/ e.k = "toolUse" /\ e.a = "end_call" /\ t = "end_call"
    /\ \A m \in RecvIdx :
           (\/ received[m].k \in {"contentStart", "audioOutput",
                                  "contentEnd"}
            \/ received[m].k = "toolUse" /\ received[m].a \in ToolNames)
               => Cardinality(NotesFor(m)) = 1
    /\ \A j \in OutIdx :
           clientOut[j].type = "ready" => (j = 1 /\ Len(sent) >= 5)
    /\ Len(TrNotes) > 0 => clientOut[1].type = "ready"

\* C18 witness: three upstream events, among them an audioOutput in a
\* USER block, were translated in order after `ready`.
C18_Witness ==
    /\ Len(received) = 3 /\ Len(clientOut) = 4
    /\ InBlockOf(2, "USER") /\ received[2].k = "audioOutput"
    /\ clientOut[1].type = "ready"
    /\ clientOut[2].type = "contentStart"
    /\ clientOut[3].type = "audio"
    /\ clientOut[4].type = "transfer"

C19_Inv == HandlerLeft => tpc \in {"none", "done", "cancelled"}

C19_Terminated ==
    tpc \in {"done", "cancelled"} =>
        /\ tpc' = tpc
        /\ received' = received
        /\ TrNotes' = TrNotes
        /\ TrSends' = TrSends
        /\ UNCHANGED trLocals

\* C19: when ws_handler has been left the translator task has terminated
\* (returned or cancelled), and a terminated translator reads no event,
\* sends no notification and calls no Session method.
C19_TaskNeverOutlives == []C19_Inv /\ [][C19_Terminated]_vars

\* C19 witness: the client left while the translator was handling an
\* event; the task was cancelled.
C19_Witness ==
    /\ gpc = "escaped" /\ tpc = "cancelled"
    /\ Len(received) = 1 /\ Len(TrNotes) = 1

\* C20: promptEnd and sessionEnd are each sent at most once per session,
\* and sessionEnd only after promptEnd.
C20_EndOnce ==
    /\ Cardinality({i \in SentIdx : sent[i].kind = "promptEnd"}) <= 1
    /\ Cardinality({i \in SentIdx : sent[i].kind = "sessionEnd"}) <= 1
    /\ \A i \in SentIdx :
           sent[i].kind = "sessionEnd" =>
               \E j \in 1..(i - 1) : sent[j].kind = "promptEnd"

\* C20 witness: the translator was cancelled inside close(), after its
\* promptEnd and with is_active still true, and ws_handler has been left.
C20_Witness ==
    /\ gpc = "escaped" /\ tpc = "cancelled" /\ is_active
    /\ Len(TrSends) >= 1 /\ TrSends[1].kind = "promptEnd"

\* The stage the marker of a contentStart stands for.
StageOf(m) ==
    IF m # 0 /\ received[m].b \in {"SPECULATIVE", "FINAL"}
    THEN received[m].b ELSE None

\* textOutput event m is the first of its text since the contentStart of
\* its block.
FirstInBlock(m) ==
    \A k \in (LastCS(m) + 1)..(m - 1) :
        ~(received[k].k = "textOutput" /\ received[k].a = received[m].a)

C21_Inv ==
    /\ current_stage = StageOf(LastCS(Len(received) + 1))
    /\ \A m \in RecvIdx :
           received[m].k = "contentStart" =>
               Cardinality(NotesFor(m)) = 1
    /\ \A m \in RecvIdx :
           (/\ received[m].k = "textOutput"
            /\ InBlockOf(m, "ASSISTANT")
            /\ received[LastCS(m)].b \in {"absent", "bad", "FINAL"}) =>
               /\ NotesFor(m) # {} <=>
                      (received[m].a # "" /\ FirstInBlock(m))
               /\ \A j \in NotesFor(m) :
                      /\ IsAssistantText(clientOut[j])
                      /\ clientOut[j].content = received[m].a

C21_ParseStep ==
    (received' # received /\ Last(received').k = "contentStart") =>
        /\ current_stage' =
               IF Last(received').b \in {"SPECULATIVE", "FINAL"}
               THEN Last(received').b ELSE None
        /\ tpc' = "notify"

\* C21: current_stage is the marker of the last contentStart read when
\* that marker is SPECULATIVE or FINAL and unset otherwise (fields absent
\* or unparseable, or no contentStart yet), whatever the stage was before;
\* a contentStart with unparseable fields is followed by its contentStart
\* notification, the loop going on; ASSISTANT text in a block of unset
\* stage is sent exactly when FINAL text is: non-empty and first of its
\* content in the block.
C21_StageFromEventAlone == []C21_Inv /\ [][C21_ParseStep]_vars

\* C21 witness: after a SPECULATIVE block, a block with unparseable fields
\* was read; its text "a" was sent and the stage is unset.
C21_Witness ==
    /\ received = << UpEvent("contentStart", "ASSISTANT", "SPECULATIVE"),
                     UpEvent("contentStart", "ASSISTANT", "bad"),
                     UpEvent("textOutput", "a", "") >>
    /\ tpc = "loop" /\ current_stage = None
    /\ Len(clientOut) = 4
    /\ IsAssistantText(clientOut[4]) /\ clientOut[4].content = "a"

\* A contentEnd was read between the contentStart of event m's block and m.
AfterContentEnd(m) ==
    \E k \in (LastCS(m) + 1)..(m - 1) : received[k].k = "contentEnd"

C22_Inv ==
    /\ \A m \in RecvIdx :
           received[m].k = "contentEnd" =>
               /\ Cardinality(NotesFor(m)) = 1
               /\ \A j \in NotesFor(m) :
                      /\ clientOut[j].type = "contentEnd"
                      /\ clientOut[j].role =
                             IF LastCS(m) = 0 THEN None
                             ELSE received[LastCS(m)].a
    /\ \A m \in RecvIdx :
           (/\ received[m].k = "textOutput" /\ AfterContentEnd(m)
            /\ InBlockOf(m, "USER")) =>
               /\ Cardinality(NotesFor(m)) = 1
               /\ \A j \in NotesFor(m) :
                      /\ clientOut[j].type = "text"
                      /\ clientOut[j].role = "user"
                      /\ clientOut[j].content = received[m].a
    /\ \A m \in RecvIdx :
           (/\ received[m].k = "textOutput" /\ AfterContentEnd(m)
            /\ InBlockOf(m, "ASSISTANT")) =>
               /\ NotesFor(m) # {} <=>
                      /\ received[m].a # "" /\ FirstInBlock(m)
                      /\ ~InStage(m, "SPECULATIVE")
               /\ \A j \in NotesFor(m) :
                      /\ IsAssistantText(clientOut[j])
                      /\ clientOut[j].content = received[m].a

C22_EndStep ==
    (received' # received /\ Last(received').k = "contentEnd") =>
        /\ UNCHANGED <<current_role, current_stage,
                       emitted_assistant_lines>>
        /\ Len(clientOut') = Len(clientOut) + 1
        /\ Last(clientOut').type = "contentEnd"
        /\ Last(clientOut').role = current_role

\* C22: reading a contentEnd sends one contentEnd notification with the
\* role of the last contentStart read (None before any) and changes
\* neither current_role, current_stage nor the buffer; a textOutput read
\* after it and before the next contentStart is sent as user text in a
\* USER block, and in an ASSISTANT block deduplicated against the whole
\* block, the part before the contentEnd included.
C22_ContentEndKeepsTurn == []C22_Inv /\ [][C22_EndStep]_vars

\* C22 witness: in one ASSISTANT block "a", contentEnd, "a" were read and
\* handled: the second "a", after the contentEnd, was suppressed by the
\* buffer kept across it.
C22_Witness ==
    /\ received = << UpEvent("contentStart", "ASSISTANT", "FINAL"),
                     UpEvent("textOutput", "a", ""),
                     UpEvent("contentEnd", "", ""),
                     UpEvent("textOutput", "a", "") >>
    /\ tpc = "loop" /\ current_role = "ASSISTANT"
    /\ emitted_assistant_lines = <<"a">>
    /\ Len(clientOut) = 4
    /\ clientOut[4].type = "contentEnd" /\ clientOut[4].role = "ASSISTANT"

====
